---- MODULE Spec2Model ----
(***************************************************************************)
(* Model of the access control list types of tauri-utils:                  *)
(*   core/tauri-utils/src/acl/mod.rs       Commands, Scopes, Permission,   *)
(*                                         PermissionSet, RemoteUrlPattern *)
(*   core/tauri-utils/src/acl/manifest.rs  PermissionFile, Manifest::new   *)
(*                                                                         *)
(* Conventions.  Option<T> is a sequence of length at most one: None is    *)
(* <<>> and Some(x) is <<x>>.  Vec<T> is a sequence.  BTreeMap<String, T>  *)
(* is a function whose domain is the set of keys.  A JSON object is a      *)
(* function whose domain is the set of keys that are present.  A string    *)
(* that is only compared is a TLA+ string; a string that is parsed or      *)
(* matched (pattern text, URL components) is a sequence of characters.     *)
(***************************************************************************)
EXTENDS Integers, Sequences, FiniteSets, TLC

VARIABLES
    pc,                 \* which harness runs and where it stands
    permission_files,   \* Manifest::new: the files consumed so far by the loop
    manifest,           \* Manifest::new: the manifest under construction
    serialized,         \* serde output of the manifest's two tables
    restored,           \* serde input read back from `serialized`
    permission,         \* a Permission value (commands and scope)
    command,            \* the command identifier of the last access decision
    decision,           \* the outcome of the last access decision
    scope_empty,        \* the last result of Scopes::is_empty
    perm_json,          \* the last serialization of `permission`
    patterns,           \* the RemoteUrlPatterns parsed so far, in order
    parse_failed,       \* whether the last from_str returned Err
    url,                \* the Url of the last RemoteUrlPattern::test
    tested,             \* index in `patterns` of the pattern last tested
    matcher_result,     \* what urlpattern's test returned: Ok(bool) or Err
    test_result,        \* what RemoteUrlPattern::test returned
    eq_result,          \* the last result of RemoteUrlPattern::eq, with operands
    schema_arg,         \* Manifest::new: the global_scope_schema argument
    is_local,           \* whether the classified content is the app's own origin
    context             \* the last execution context classification

vars == <<pc, permission_files, manifest, serialized, restored, permission,
          command, decision, scope_empty, perm_json, patterns, parse_failed,
          url, tested, matcher_result, test_result, eq_result,
          schema_arg, is_local, context>>

manifestVars == <<permission_files, manifest, serialized, restored,
                  schema_arg>>
aclVars == <<permission, command, decision, scope_empty, perm_json>>
urlVars == <<patterns, parse_failed, url, tested, matcher_result, test_result,
             eq_result, is_local, context>>

(***************************************************************************)
(* Bounds of the model.                                                    *)
(***************************************************************************)
\* files handed to one Manifest::new
MaxFiles == 2
\* declarations (defaults, permissions, sets) in all files of one call
MaxDecls == 3
\* entries of one allow or deny command list
MaxCmds == 2
\* patterns parsed in one run of the pattern harness
MaxPatterns == 3
\* remote patterns authored for one capability
MaxRemote == 2

(***************************************************************************)
(* Option, Vec and BTreeMap.                                               *)
(***************************************************************************)
None == <<>>

Some(x) == <<x>>

is_none(o) == o = <<>>

unwrap_or(o, d) == IF o = <<>> THEN d ELSE o[1]

SeqsOfLen(S, n) == [1..n -> S]

SeqsUpTo(S, n) == UNION {SeqsOfLen(S, k) : k \in 0..n}

Elems(s) == {s[i] : i \in 1..Len(s)}

BTreeMap_new == [k \in {} |-> None]

\* BTreeMap::insert: the value under an existing key is replaced
BTreeMap_insert(m, k, v) ==
    [x \in (DOMAIN m) \cup {k} |-> IF x = k THEN v ELSE m[x]]

\* faulty variant of extend: an existing entry is kept
BTreeMap_extend_keep_first(m, other) ==
    [x \in (DOMAIN m) \cup (DOMAIN other) |->
        IF x \in DOMAIN m THEN m[x] ELSE other[x]]

\* Extend::extend for BTreeMap: insert every entry of `other`
BTreeMap_extend(m, other) ==
    [x \in (DOMAIN m) \cup (DOMAIN other) |->
        IF x \in DOMAIN other THEN other[x] ELSE m[x]]

\* faulty variant of collect: of two declarations with the same identifier in
\* one file the first is kept
RECURSIVE collect_keep_first(_)
collect_keep_first(decls) ==
    IF decls = <<>> THEN BTreeMap_new
    ELSE LET rest == collect_keep_first(Tail(decls))
         IN  BTreeMap_insert(rest, Head(decls).identifier, Head(decls))

\* .map(|p| (p.identifier.clone(), p)).collect::<BTreeMap<_, _>>(): the entries
\* are inserted in iteration order, so of two with one key the later stays
RECURSIVE collect(_)
collect(decls) ==
    IF decls = <<>> THEN BTreeMap_new
    ELSE LET n == Len(decls)
             init == collect(SubSeq(decls, 1, n - 1))
         IN  BTreeMap_insert(init, decls[n].identifier, decls[n])

(***************************************************************************)
(* The declarations the harnesses draw from.                               *)
(***************************************************************************)
\* Permission (mod.rs 158-181): three samples, two of them with one identifier
\* and no field in common
Permission_a1 ==
    [version |-> None, identifier |-> "a", description |-> None,
     commands |-> [allow |-> <<"c1">>, deny |-> <<>>],
     scope |-> [allow |-> Some(<<"v1">>), deny |-> Some(<<"v2", "v1">>)],
     platforms |-> None]

Permission_a2 ==
    [version |-> Some(1), identifier |-> "a", description |-> Some("second"),
     commands |-> [allow |-> <<"c2">>, deny |-> <<"c1">>],
     scope |-> [allow |-> Some(<<>>), deny |-> None],
     platforms |-> Some(<<"linux">>)]

Permission_b ==
    [version |-> None, identifier |-> "b", description |-> Some("other"),
     commands |-> [allow |-> <<>>, deny |-> <<>>],
     scope |-> [allow |-> None, deny |-> None],
     platforms |-> None]

PermissionDecls == {Permission_a1, Permission_a2, Permission_b}

\* PermissionSet (mod.rs 186-195)
PermissionSet_s1 ==
    [identifier |-> "s", description |-> "one", permissions |-> <<"a">>]

PermissionSet_s2 ==
    [identifier |-> "s", description |-> "two", permissions |-> <<"b", "a">>]

PermissionSet_t ==
    [identifier |-> "t", description |-> "three", permissions |-> <<"s">>]

\* a set that a file declares under the identifier "default"
PermissionSet_default ==
    [identifier |-> "default", description |-> "named default",
     permissions |-> <<"b">>]

SetDecls ==
    {PermissionSet_s1, PermissionSet_s2, PermissionSet_t, PermissionSet_default}

\* DefaultPermission (manifest.rs 17-26), with and without a description
Default_1 ==
    [version |-> Some(1), description |-> Some("custom"), permissions |-> <<"a">>]

Default_2 ==
    [version |-> None, description |-> None, permissions |-> <<"b", "s">>]

DefaultDecls == {Default_1, Default_2}

\* serde_json::Value of the global scope schema
SchemaValues == {"schema"}

\* the number of declarations of a file
DeclCount(f) == Len(f.default) + Len(f.set) + Len(f.permission)

\* PermissionFile (manifest.rs 31-42): every file of at most n declarations
Files(n) ==
    UNION { { [default |-> k[1], set |-> s, permission |-> p] :
                s \in SeqsOfLen(SetDecls, k[2]),
                p \in SeqsOfLen(PermissionDecls, k[3]) } :
            k \in {t \in ({None} \cup {Some(x) : x \in DefaultDecls})
                            \X (0..n) \X (0..n) :
                        Len(t[1]) + t[2] + t[3] <= n} }

(***************************************************************************)
(* Manifest::new (manifest.rs 59-108).                                     *)
(***************************************************************************)
\* manifest.rs 63-68: the manifest before the loop
Manifest_init(global_scope_schema) ==
    [default_permission |-> None,
     permissions |-> BTreeMap_new,
     permission_sets |-> BTreeMap_new,
     global_scope_schema |-> global_scope_schema]

\* faulty variant of the replacement: Option::get_or_insert, which keeps a
\* default that is already set
default_keep_first(current, file) ==
    IF current # None THEN current
    ELSE IF file.default # None
         THEN Some([identifier |-> "default",
                    description |-> unwrap_or(file.default[1].description,
                                              "Default plugin permissions."),
                    permissions |-> file.default[1].permissions])
         ELSE current

\* faulty variant of the replacement: a plain assignment, which clears the
\* default when the file declares none
default_assigned(current, file) ==
    IF file.default # None
    THEN Some([identifier |-> "default",
               description |-> unwrap_or(file.default[1].description,
                                         "Default plugin permissions."),
               permissions |-> file.default[1].permissions])
    ELSE None

\* manifest.rs 71-79: Option::replace of the default permission
replace_default(current, file) ==
    IF file.default # None
    THEN Some([identifier |-> "default",
               description |-> unwrap_or(file.default[1].description,
                                         "Default plugin permissions."),
               permissions |-> file.default[1].permissions])
    ELSE current

\* faulty variant of the set closure: identifier and description change places
rebuild_set_swapped(set) ==
    [identifier |-> set.description,
     description |-> set.identifier,
     permissions |-> set.permissions]

\* faulty variant of the set closure: the references of the set are dropped
rebuild_set_without_references(set) ==
    [identifier |-> set.identifier,
     description |-> set.description,
     permissions |-> <<>>]

\* manifest.rs 93-102: the set is rebuilt field by field
rebuild_set(set) ==
    [identifier |-> set.identifier,
     description |-> set.description,
     permissions |-> set.permissions]

map_sets(sets) == [i \in 1..Len(sets) |-> rebuild_set(sets[i])]

\* faulty variant of the loop body: the schema is the file's business and a
\* file without declarations resets it
loop_body_resets_schema(m, file) ==
    [default_permission |-> replace_default(m.default_permission, file),
     permissions |-> BTreeMap_extend(m.permissions, collect(file.permission)),
     permission_sets |->
         BTreeMap_extend(m.permission_sets, collect(map_sets(file.set))),
     global_scope_schema |->
         IF DeclCount(file) = 0 THEN None ELSE m.global_scope_schema]

\* manifest.rs 70-105: one iteration of the loop
loop_body(m, file) ==
    [default_permission |-> replace_default(m.default_permission, file),
     permissions |-> BTreeMap_extend(m.permissions, collect(file.permission)),
     permission_sets |->
         BTreeMap_extend(m.permission_sets, collect(map_sets(file.set))),
     global_scope_schema |-> m.global_scope_schema]

\* manifest.rs 59-108: the whole function, as a fold of the loop body
RECURSIVE Manifest_new(_, _)
Manifest_new(files, global_scope_schema) ==
    IF files = <<>> THEN Manifest_init(global_scope_schema)
    ELSE LET n == Len(files)
         IN  loop_body(Manifest_new(SubSeq(files, 1, n - 1), global_scope_schema),
                       files[n])

(***************************************************************************)
(* serde: the derived Serialize and Deserialize of the ACL types, with the *)
(* attributes of mod.rs 117-195.  Ok(x) is Some(x) and Err is None.        *)
(***************************************************************************)
\* faulty variant of Scopes::is_empty: a present list of length zero counts as
\* empty too
is_empty_by_length(scope) ==
    /\ unwrap_or(scope.allow, <<>>) = <<>>
    /\ unwrap_or(scope.deny, <<>>) = <<>>

\* mod.rs 146-148
Scopes_is_empty(scope) == is_none(scope.allow) /\ is_none(scope.deny)

\* mod.rs 119-127: both lists are always written
Serialize_Commands(c) == [allow |-> c.allow, deny |-> c.deny]

\* mod.rs 121, 125: #[serde(default)] on both lists
Deserialize_Commands(o) ==
    [allow |-> IF "allow" \in DOMAIN o THEN o.allow ELSE <<>>,
     deny |-> IF "deny" \in DOMAIN o THEN o.deny ELSE <<>>]

\* faulty variant of the Scopes serializer: a present list of length zero is
\* skipped like an absent one
Serialize_Scopes_skip_empty(s) ==
    [k \in {x \in {"allow", "deny"} : unwrap_or(s[x], <<>>) # <<>>} |-> s[k][1]]

\* mod.rs 136-143: skip_serializing_if = "Option::is_none" on both lists
Serialize_Scopes(s) ==
    [k \in {x \in {"allow", "deny"} : ~is_none(s[x])} |-> s[k][1]]

\* mod.rs 136-143: a missing Option field reads as None
Deserialize_Scopes(o) ==
    [allow |-> IF "allow" \in DOMAIN o THEN Some(o.allow) ELSE None,
     deny |-> IF "deny" \in DOMAIN o THEN Some(o.deny) ELSE None]

\* mod.rs 158-181: version, description and platforms are skipped when None,
\* scope is skipped when Scopes::is_empty
Serialize_Permission(p) ==
    LET keys == {"identifier", "commands"}
                \cup (IF is_none(p.version) THEN {} ELSE {"version"})
                \cup (IF is_none(p.description) THEN {} ELSE {"description"})
                \cup (IF Scopes_is_empty(p.scope) THEN {} ELSE {"scope"})
                \cup (IF is_none(p.platforms) THEN {} ELSE {"platforms"})
    IN  [k \in keys |->
            CASE k = "identifier" -> p.identifier
              [] k = "commands" -> Serialize_Commands(p.commands)
              [] k = "version" -> p.version[1]
              [] k = "description" -> p.description[1]
              [] k = "scope" -> Serialize_Scopes(p.scope)
              [] k = "platforms" -> p.platforms[1]]

\* mod.rs 158-181: identifier is required, commands and scope have
\* #[serde(default)], a missing Option field reads as None
Deserialize_Permission(o) ==
    IF "identifier" \notin DOMAIN o THEN None
    ELSE Some([version |-> IF "version" \in DOMAIN o THEN Some(o.version) ELSE None,
               identifier |-> o.identifier,
               description |->
                   IF "description" \in DOMAIN o THEN Some(o.description) ELSE None,
               commands |->
                   IF "commands" \in DOMAIN o THEN Deserialize_Commands(o.commands)
                   ELSE [allow |-> <<>>, deny |-> <<>>],
               scope |->
                   IF "scope" \in DOMAIN o THEN Deserialize_Scopes(o.scope)
                   ELSE [allow |-> None, deny |-> None],
               platforms |->
                   IF "platforms" \in DOMAIN o THEN Some(o.platforms) ELSE None])

\* mod.rs 186-195: the three fields are always written
Serialize_PermissionSet(s) ==
    [identifier |-> s.identifier,
     description |-> s.description,
     permissions |-> s.permissions]

\* mod.rs 186-195: the three fields are required
Deserialize_PermissionSet(o) ==
    IF {"identifier", "description", "permissions"} \subseteq DOMAIN o
    THEN Some([identifier |-> o.identifier,
               description |-> o.description,
               permissions |-> o.permissions])
    ELSE None

\* manifest.rs 50-52: a BTreeMap is written as an object, one member per key
Serialize_tables(m) ==
    [permissions |->
         [k \in DOMAIN m.permissions |-> Serialize_Permission(m.permissions[k])],
     permission_sets |->
         [k \in DOMAIN m.permission_sets |->
             Serialize_PermissionSet(m.permission_sets[k])]]

\* manifest.rs 50-52: an object is read back member by member; one member that
\* fails to read fails the whole
Deserialize_tables(o) ==
    LET ps == [k \in DOMAIN o.permissions |-> Deserialize_Permission(o.permissions[k])]
        ss == [k \in DOMAIN o.permission_sets |->
                  Deserialize_PermissionSet(o.permission_sets[k])]
    IN  IF \/ \E k \in DOMAIN ps : ps[k] = None
           \/ \E k \in DOMAIN ss : ss[k] = None
        THEN None
        ELSE Some([permissions |-> [k \in DOMAIN ps |-> ps[k][1]],
                   permission_sets |-> [k \in DOMAIN ss |-> ss[k][1]]])

(***************************************************************************)
(* The access decision over a Commands value (mod.rs 114-127 declares the  *)
(* lists and the rule "deny takes priority"; the decision itself is made   *)
(* by the runtime authority, outside these files).                         *)
(***************************************************************************)
\* faulty variant of the decision: allow is looked up first
access_decision_allow_first(commands, c) ==
    IF c \in Elems(commands.allow) THEN "permit"
    ELSE IF c \in Elems(commands.deny) THEN "deny"
    ELSE "unlisted"

\* deny membership decides first, then allow membership; a command in neither
\* list is left to the caller
access_decision(commands, c) ==
    IF c \in Elems(commands.deny) THEN "deny"
    ELSE IF c \in Elems(commands.allow) THEN "permit"
    ELSE "unlisted"

(***************************************************************************)
(* RemoteUrlPattern (mod.rs 197-253).  Pattern texts and URL components    *)
(* are sequences of characters.  The pattern syntax covered is literal     *)
(* characters and the wildcard "*".                                        *)
(***************************************************************************)
star == <<"*">>

slash == <<"/">>

empty == <<>>

\* the least i >= from with s[i] in chars, or Len(s) + 1
IndexFrom(s, chars, from) ==
    LET hits == {i \in from..Len(s) : s[i] \in chars}
    IN  IF hits = {} THEN Len(s) + 1
        ELSE CHOOSE i \in hits : \A j \in hits : i <= j

\* urlpattern's component matcher: "*" is the full wildcard (.*), every other
\* character stands for itself
RECURSIVE component_matches(_, _)
component_matches(p, s) ==
    IF p = <<>> THEN s = <<>>
    ELSE IF Head(p) = "*"
         THEN \/ component_matches(Tail(p), s)
              \/ s # <<>> /\ component_matches(p, Tail(s))
         ELSE /\ s # <<>>
              /\ Head(s) = Head(p)
              /\ component_matches(Tail(p), Tail(s))

\* the schemes the URL standard calls special
SpecialSchemes ==
    { <<"h","t","t","p">>, <<"h","t","t","p","s">>, <<"w","s">>,
      <<"w","s","s">>, <<"f","t","p">>, <<"f","i","l","e">> }

\* "?" opens the search component unless it follows a wildcard, where it is a
\* modifier; "#" opens the hash; "/" opens the pathname
IsSearchPrefix(s, i) == s[i] = "?" /\ ~(i > 1 /\ s[i - 1] = "*")

ComponentEnd(s, from, withSlash) ==
    LET hits == {i \in from..Len(s) :
                    \/ s[i] = "#"
                    \/ IsSearchPrefix(s, i)
                    \/ withSlash /\ s[i] = "/"}
    IN  IF hits = {} THEN Len(s) + 1
        ELSE CHOOSE i \in hits : \A j \in hits : i <= j

\* urlpattern::UrlPatternInit::parse_constructor_string (called at mod.rs 205)
\* for a text with a protocol: once the protocol is read every later component
\* is the empty string until the text gives it, and the pathname is "/" when
\* the protocol can be a special scheme.  Err (None) for a text without a
\* protocol or with an unclosed group.
parse_constructor_string(s) ==
    LET colon == IndexFrom(s, {":"}, 1)
        protocol == SubSeq(s, 1, colon - 1)
        special == \E sch \in SpecialSchemes : component_matches(protocol, sch)
        slashes == /\ colon + 2 <= Len(s)
                   /\ s[colon + 1] = "/"
                   /\ s[colon + 2] = "/"
        a0 == IF slashes THEN colon + 3 ELSE colon + 1
        authEnd == IF slashes THEN ComponentEnd(s, a0, TRUE) ELSE a0
        authority == SubSeq(s, a0, authEnd - 1)
        at == IndexFrom(authority, {"@"}, 1)
        userinfo == IF at <= Len(authority) THEN SubSeq(authority, 1, at - 1)
                    ELSE <<>>
        hostport == IF at <= Len(authority)
                    THEN SubSeq(authority, at + 1, Len(authority))
                    ELSE authority
        ucolon == IndexFrom(userinfo, {":"}, 1)
        hcolon == IndexFrom(hostport, {":"}, 1)
        pathEnd == ComponentEnd(s, authEnd, FALSE)
        searchEnd == IndexFrom(s, {"#"}, pathEnd)
    IN  IF colon > Len(s) \/ ("(" \in Elems(s) /\ ")" \notin Elems(s))
        THEN None
        ELSE Some([protocol |-> Some(protocol),
                   username |-> Some(SubSeq(userinfo, 1, ucolon - 1)),
                   password |-> Some(SubSeq(userinfo, ucolon + 1, Len(userinfo))),
                   hostname |-> Some(SubSeq(hostport, 1, hcolon - 1)),
                   port |-> Some(SubSeq(hostport, hcolon + 1, Len(hostport))),
                   pathname |->
                       IF pathEnd > authEnd THEN Some(SubSeq(s, authEnd, pathEnd - 1))
                       ELSE IF special THEN Some(slash)
                       ELSE Some(empty),
                   search |-> Some(SubSeq(s, pathEnd + 1, searchEnd - 1)),
                   hash |-> Some(SubSeq(s, searchEnd + 1, Len(s)))])

\* urlpattern::UrlPattern::parse (called at mod.rs 220): a component the init
\* leaves out compiles to the wildcard, one it gives compiles as given
UrlPattern_parse(init) ==
    [c \in DOMAIN init |-> unwrap_or(init[c], star)]

\* faulty variant of the normalization: the search is left as parsed
normalize_without_search(init) ==
    [init EXCEPT
        !.hash = IF unwrap_or(init.hash, empty) = empty THEN Some(star) ELSE @,
        !.pathname = IF unwrap_or(init.pathname, empty) \in {empty, slash}
                     THEN Some(star) ELSE @]

\* faulty variant of the normalization: the pathname is left as parsed
normalize_without_pathname(init) ==
    [init EXCEPT
        !.search = IF unwrap_or(init.search, empty) = empty THEN Some(star) ELSE @,
        !.hash = IF unwrap_or(init.hash, empty) = empty THEN Some(star) ELSE @]

\* faulty variant of the normalization: the three components are replaced
\* whatever the text gives for them
normalize_always(init) ==
    [init EXCEPT !.search = Some(star), !.hash = Some(star),
                 !.pathname = Some(star)]

\* mod.rs 206-219: search and hash become "*" when absent or empty, pathname
\* when absent, empty or "/"
normalize(init) ==
    [init EXCEPT
        !.search = IF unwrap_or(init.search, empty) = empty THEN Some(star) ELSE @,
        !.hash = IF unwrap_or(init.hash, empty) = empty THEN Some(star) ELSE @,
        !.pathname = IF unwrap_or(init.pathname, empty) \in {empty, slash}
                     THEN Some(star) ELSE @]

\* mod.rs 204-222: FromStr for RemoteUrlPattern.  Ok(Self(pattern, s)) is
\* Some(<<pattern, s>>), an Err of either library call is None
from_str(s) ==
    LET init == parse_constructor_string(s)
    IN  IF init = None THEN None
        ELSE Some(<<UrlPattern_parse(normalize(init[1])), s>>)

\* mod.rs 227-229
as_str(p) == p[2]

\* urlpattern::UrlPattern::test on UrlPatternMatchInput::Url (called at mod.rs
\* 233-235): Ok(whether all eight components match), or Err when the matcher
\* reports a fault
UrlPattern_test(pattern, u, fault) ==
    IF fault THEN None
    ELSE Some(\A c \in DOMAIN pattern : component_matches(pattern[c], u[c]))

\* faulty variant of test: an Err of the matcher counts as a match
test_fail_open(p, u, fault) == unwrap_or(UrlPattern_test(p[1], u, fault), TRUE)

\* mod.rs 232-237: unwrap_or_default turns Err into false
RemoteUrlPattern_test(p, u, fault) ==
    unwrap_or(UrlPattern_test(p[1], u, fault), FALSE)

\* faulty variant of eq: the derived comparison, which reads the source text
\* too
eq_with_text(p, q) == p = q

\* mod.rs 240-251: PartialEq for RemoteUrlPattern
RemoteUrlPattern_eq(p, q) ==
    /\ p[1].protocol = q[1].protocol
    /\ p[1].username = q[1].username
    /\ p[1].password = q[1].password
    /\ p[1].hostname = q[1].hostname
    /\ p[1].port = q[1].port
    /\ p[1].pathname = q[1].pathname
    /\ p[1].search = q[1].search
    /\ p[1].hash = q[1].hash

(***************************************************************************)
(* ExecutionContext (mod.rs 255-266) and its classification.  The enum and *)
(* its default are declared in these files; the classification of a        *)
(* window's content is made by the runtime, outside them.                  *)
(***************************************************************************)
\* mod.rs 260: ExecutionContext::Local
Local == [kind |-> "Local", url |-> None]

\* mod.rs 262-265: ExecutionContext::Remote { url }
Remote(p) == [kind |-> "Remote", url |-> Some(p)]

\* mod.rs 259: #[default] marks Local
ExecutionContext_default == Local

\* the classification found no pattern: no context at all
NoMatch == [kind |-> "NoMatch", url |-> None]

\* nothing has been classified yet
Unclassified == [kind |-> "Unclassified", url |-> None]

\* faulty variant of the classification: content that matches no pattern
\* falls back to the default context
classify_default_on_no_match(local, u, authored) ==
    LET hits == {i \in 1..Len(authored) :
                    RemoteUrlPattern_test(authored[i], u, FALSE)}
    IN  IF local THEN Local
        ELSE IF hits = {} THEN ExecutionContext_default
        ELSE Remote(authored[CHOOSE i \in hits : \A j \in hits : i <= j])

\* the app's own content is Local; other content is tested against the
\* authored patterns in declaration order and takes the first that matches;
\* content that matches none has no context
classify(local, u, authored) ==
    LET hits == {i \in 1..Len(authored) :
                    RemoteUrlPattern_test(authored[i], u, FALSE)}
    IN  IF local THEN Local
        ELSE IF hits = {} THEN NoMatch
        ELSE Remote(authored[CHOOSE i \in hits : \A j \in hits : i <= j])

(***************************************************************************)
(* The values the harnesses draw from.                                     *)
(***************************************************************************)
\* command identifiers; "*" is an identifier like any other
Cmds == {"c1", "c2", "*"}

\* serde_json-like scope values
ScopeValues == {"v1"}

ScopeLists == {None, Some(<<>>), Some(<<"v1">>)}

\* the Permission values of the access harness
AclPermissions ==
    { [version |-> None, identifier |-> "p", description |-> None,
       commands |-> [allow |-> a, deny |-> d],
       scope |-> [allow |-> sa, deny |-> sd],
       platforms |-> None] :
      a \in SeqsUpTo(Cmds, MaxCmds), d \in SeqsUpTo(Cmds, MaxCmds),
      sa \in ScopeLists, sd \in ScopeLists }

http == <<"h","t","t","p">>

https == <<"h","t","t","p","s">>

custom == <<"c","u">>

\* the domain D of the subdomain patterns, and the host H
domain_ab == <<"a",".","b">>

domain_b == <<"b">>

host_lo == <<"l","o">>

Hosts ==
    { domain_ab, <<"x",".","a",".","b">>, <<"y",".","x",".","a",".","b">>,
      <<"x","a",".","b">>, domain_b, host_lo, <<"l","o","o">> }

sep == <<":","/","/">>

\* "http://*"
text_any_host == http \o sep \o star

\* "http://*.D"
text_subdomain(D) == http \o sep \o <<"*",".">> \o D

\* "*://lo"
text_any_scheme == star \o sep \o host_lo

\* "http://lo", "http://lo/", "http://lo/*", "http://lo/p"
text_host == http \o sep \o host_lo

text_host_slash == text_host \o <<"/">>

text_host_star == text_host \o <<"/","*">>

text_host_path == text_host \o <<"/","p">>

\* "http://(": an unclosed group
text_malformed == http \o sep \o <<"(">>

PatternTexts ==
    { text_any_host, text_subdomain(domain_ab), text_subdomain(domain_b),
      text_any_scheme, text_host, text_host_slash, text_host_star,
      text_host_path, text_malformed }

\* "http://lo?q", "http://lo#f", "http://lo/?q", "http://lo/p?q#f"
text_search == text_host \o <<"?","q">>

text_hash == text_host \o <<"#","f">>

text_slash_search == text_host_slash \o <<"?","q">>

text_path_search_hash == text_host_path \o <<"?","q","#","f">>

\* "cu://lo": no pathname under a scheme that is not special
text_custom == custom \o sep \o host_lo

\* "http://u:w@lo:8/": credentials and a port, the root pathname
text_credentials == http \o sep \o <<"u",":","w","@">> \o host_lo \o <<":","8","/">>

\* the texts a single pattern is parsed from
AuthoredTexts ==
    PatternTexts \cup
    { text_search, text_hash, text_slash_search, text_path_search_hash,
      text_custom, text_credentials }

\* url::Url, by the components the matcher reads
Urls ==
    [protocol : {http, https, custom},
     username : {empty, <<"u">>},
     password : {empty},
     hostname : Hosts,
     port : {empty, <<"8">>},
     pathname : {slash, <<"/","p">>, <<"/","p","/","q">>},
     search : {empty, <<"q">>},
     hash : {empty, <<"f">>}]

(***************************************************************************)
(* Initial states.  Each harness starts the variables of the others at     *)
(* rest and never changes them.                                            *)
(***************************************************************************)
ManifestAtRest ==
    /\ permission_files = <<>>
    /\ manifest = Manifest_init(None)
    /\ serialized = None
    /\ restored = None
    /\ schema_arg = None

AclAtRest ==
    /\ permission = Permission_a1
    /\ command = ""
    /\ decision = ""
    /\ scope_empty = None
    /\ perm_json = None

UrlAtRest ==
    /\ patterns = <<>>
    /\ parse_failed = FALSE
    /\ url = None
    /\ tested = 0
    /\ matcher_result = None
    /\ test_result = None
    /\ eq_result = None
    /\ is_local = FALSE
    /\ context = Unclassified

\* manifest.rs 63-68: the state after the struct literal, before the loop
Init ==
    /\ pc = "loop"
    /\ permission_files = <<>>
    /\ schema_arg \in {None} \cup {Some(v) : v \in SchemaValues}
    /\ manifest = Manifest_init(schema_arg)
    /\ serialized = None
    /\ restored = None
    /\ AclAtRest
    /\ UrlAtRest

InitAcl ==
    /\ pc = "acl"
    /\ permission \in AclPermissions
    /\ command = ""
    /\ decision = ""
    /\ scope_empty = None
    /\ perm_json = None
    /\ ManifestAtRest
    /\ UrlAtRest

InitUrl ==
    /\ pc = "url"
    /\ ManifestAtRest
    /\ AclAtRest
    /\ UrlAtRest

InitEq ==
    /\ pc = "eq"
    /\ ManifestAtRest
    /\ AclAtRest
    /\ UrlAtRest

(***************************************************************************)
(* Manifest::new and the serde round trip of its tables.                   *)
(***************************************************************************)
RECURSIVE TotalDecls(_)
TotalDecls(files) ==
    IF files = <<>> THEN 0 ELSE DeclCount(Head(files)) + TotalDecls(Tail(files))

\* manifest.rs 70-105: the loop takes the next file
ProcessFile(file) ==
    /\ pc = "loop"
    /\ Len(permission_files) < MaxFiles
    /\ manifest' = loop_body(manifest, file)
    /\ permission_files' = Append(permission_files, file)
    /\ UNCHANGED <<pc, serialized, restored, schema_arg, aclVars,
                   urlVars>>

\* manifest.rs 107: the loop is over and the manifest is returned
Return ==
    /\ pc = "loop"
    /\ pc' = "built"
    /\ UNCHANGED <<manifestVars, aclVars, urlVars>>

\* manifest.rs 45: derive(Serialize), for the two tables
Serialize ==
    /\ pc = "built"
    /\ serialized' = Some(Serialize_tables(manifest))
    /\ pc' = "serialized"
    /\ UNCHANGED <<permission_files, manifest, restored, schema_arg,
                   aclVars, urlVars>>

\* manifest.rs 45: derive(Deserialize), for the two tables
Deserialize ==
    /\ pc = "serialized"
    /\ restored' = Some(Deserialize_tables(serialized[1]))
    /\ pc' = "restored"
    /\ UNCHANGED <<permission_files, manifest, serialized, schema_arg,
                   aclVars, urlVars>>

NextFile ==
    \E file \in Files(MaxDecls - TotalDecls(permission_files)) : ProcessFile(file)

Next ==
    \/ NextFile
    \/ Return
    \/ Serialize
    \/ Deserialize

Spec == Init /\ [][Next]_vars

(***************************************************************************)
(* The access harness: decisions over one Permission, Scopes::is_empty and *)
(* the serialization of the Permission.                                    *)
(***************************************************************************)
\* the access decision for command c
Decide(c) ==
    /\ pc = "acl"
    /\ command' = c
    /\ decision' = access_decision(permission.commands, c)
    /\ UNCHANGED <<pc, permission, scope_empty, perm_json, manifestVars, urlVars>>

\* mod.rs 146-148
IsEmpty ==
    /\ pc = "acl"
    /\ scope_empty = None
    /\ scope_empty' = Some(Scopes_is_empty(permission.scope))
    /\ UNCHANGED <<pc, permission, command, decision, perm_json, manifestVars,
                   urlVars>>

\* mod.rs 156: derive(Serialize) for Permission
SerializePermission ==
    /\ pc = "acl"
    /\ perm_json = None
    /\ perm_json' = Some(Serialize_Permission(permission))
    /\ UNCHANGED <<pc, permission, command, decision, scope_empty, manifestVars,
                   urlVars>>

ResolveAccess == \E c \in Cmds : Decide(c)

NextAcl ==
    \/ ResolveAccess
    \/ IsEmpty
    \/ SerializePermission

SpecAcl == InitAcl /\ [][NextAcl]_vars

(***************************************************************************)
(* The pattern harnesses: parse and test one pattern; parse several and    *)
(* compare them.                                                           *)
(***************************************************************************)
\* mod.rs 204-222: text.parse::<RemoteUrlPattern>()
ParseText(text, limit) ==
    /\ Len(patterns) < limit
    /\ LET r == from_str(text)
       IN  IF r = None
           THEN parse_failed' = TRUE /\ patterns' = patterns
           ELSE parse_failed' = FALSE /\ patterns' = Append(patterns, r[1])
    /\ UNCHANGED <<pc, url, tested, matcher_result, test_result, eq_result,
                   is_local, context,
                   manifestVars, aclVars>>

\* mod.rs 232-237: pattern.test(&url), with or without a fault of the matcher
Test(i, u, fault) ==
    /\ pc = "url"
    /\ tested = 0
    /\ i \in 1..Len(patterns)
    /\ url' = Some(u)
    /\ tested' = i
    /\ matcher_result' = UrlPattern_test(patterns[i][1], u, fault)
    /\ test_result' = Some(RemoteUrlPattern_test(patterns[i], u, fault))
    /\ UNCHANGED <<pc, patterns, parse_failed, eq_result, is_local, context,
                   manifestVars, aclVars>>

\* mod.rs 240-251: patterns[i] == patterns[j]
Compare(i, j) ==
    /\ pc = "eq"
    /\ i \in 1..Len(patterns)
    /\ j \in 1..Len(patterns)
    /\ eq_result' = Some([left |-> i, right |-> j,
                          equal |-> RemoteUrlPattern_eq(patterns[i], patterns[j])])
    /\ UNCHANGED <<pc, patterns, parse_failed, url, tested, matcher_result,
                   is_local, context,
                   test_result, manifestVars, aclVars>>

ParseOne == \E text \in AuthoredTexts : pc = "url" /\ ParseText(text, 1)

TestUrl == \E u \in Urls, fault \in BOOLEAN : Test(1, u, fault)

NextUrl ==
    \/ ParseOne
    \/ TestUrl

SpecUrl == InitUrl /\ [][NextUrl]_vars

ParseNext == \E text \in PatternTexts : pc = "eq" /\ ParseText(text, MaxPatterns)

ComparePair == \E i, j \in 1..MaxPatterns : Compare(i, j)

NextEq ==
    \/ ParseNext
    \/ ComparePair

SpecEq == InitEq /\ [][NextEq]_vars

(***************************************************************************)
(* The classification harness: author a few remote patterns, then classify *)
(* one piece of content.                                                   *)
(***************************************************************************)
\* the URLs of the classified content
ContentUrls ==
    {u \in Urls : /\ u.username = empty
                  /\ u.pathname = <<"/", "p">>
                  /\ u.search = empty
                  /\ u.hash = empty}

InitCtx ==
    /\ pc = "ctx"
    /\ ManifestAtRest
    /\ AclAtRest
    /\ UrlAtRest

\* the classification of content at url u
Classify(local, u) ==
    /\ pc = "ctx"
    /\ context = Unclassified
    /\ is_local' = local
    /\ url' = Some(u)
    /\ context' = classify(local, u, patterns)
    /\ UNCHANGED <<pc, patterns, parse_failed, tested, matcher_result, test_result,
                   eq_result, manifestVars, aclVars>>

Author ==
    \E text \in PatternTexts :
        pc = "ctx" /\ context = Unclassified /\ ParseText(text, MaxRemote)

ClassifyContent == \E local \in BOOLEAN, u \in ContentUrls : Classify(local, u)

NextCtx ==
    \/ Author
    \/ ClassifyContent

SpecCtx == InitCtx /\ [][NextCtx]_vars

(***************************************************************************)
(* Properties of the access harness (SpecAcl).                             *)
(***************************************************************************)
Decided == pc = "acl" /\ command # ""

\* C1: deny wins.  A decided command that occurs in the deny list is denied,
\* whether or not it occurs in the allow list, wherever and however often it
\* is listed; a command is permitted only if it occurs in allow and not in deny,
\* by equality of the identifiers ("*" in a list is the identifier "*").
C1_DenyWins ==
    Decided =>
        /\ (\E i \in 1..Len(permission.commands.deny) :
                permission.commands.deny[i] = command) => decision = "deny"
        /\ decision = "permit" =>
               /\ \E i \in 1..Len(permission.commands.allow) :
                      permission.commands.allow[i] = command
               /\ \A i \in 1..Len(permission.commands.deny) :
                      permission.commands.deny[i] # command

\* the case allow == deny == [c], decided
C1_Witness ==
    /\ Decided
    /\ command = "c1"
    /\ permission.commands.allow = <<"c1">>
    /\ permission.commands.deny = <<"c1">>
    /\ decision = "deny"

\* C5: Scopes::is_empty answers true exactly when both lists are absent (a
\* present list of length zero is not empty), and the serialized Permission
\* has no "scope" member exactly when both lists are absent.
C5_ScopesIsEmpty ==
    LET absent == permission.scope.allow = None /\ permission.scope.deny = None
    IN  /\ scope_empty # None => (scope_empty[1] <=> absent)
        /\ perm_json # None => ("scope" \notin DOMAIN perm_json[1] <=> absent)

\* Scopes{allow: Some([]), deny: None}: is_empty answered false and the scope
\* was written
C5_Witness ==
    /\ pc = "acl"
    /\ permission.scope = [allow |-> Some(<<>>), deny |-> None]
    /\ scope_empty = Some(FALSE)
    /\ perm_json # None
    /\ "scope" \in DOMAIN perm_json[1]

(***************************************************************************)
(* Properties of Manifest::new (Spec).  permission_files is the list of    *)
(* files the loop has consumed, so every state is the result of            *)
(* Manifest::new on that list.                                             *)
(***************************************************************************)
\* all permission declarations of the files, in file order and list order
RECURSIVE DeclaredPermissions(_)
DeclaredPermissions(files) ==
    IF files = <<>> THEN <<>>
    ELSE Head(files).permission \o DeclaredPermissions(Tail(files))

\* all set declarations of the files, in file order and list order
RECURSIVE DeclaredSets(_)
DeclaredSets(files) ==
    IF files = <<>> THEN <<>>
    ELSE Head(files).set \o DeclaredSets(Tail(files))

\* the last declaration of identifier k in a list that has one
LastDeclared(decls, k) ==
    LET at == {i \in 1..Len(decls) : decls[i].identifier = k}
    IN  decls[CHOOSE i \in at : \A j \in at : j <= i]

TableIsLastWrite(table, decls) ==
    /\ DOMAIN table = {decls[i].identifier : i \in 1..Len(decls)}
    /\ \A k \in DOMAIN table : table[k] = LastDeclared(decls, k)

\* C2: last write wins per identifier.  Each table holds exactly one entry per
\* declared identifier, and the entry equals, field for field, the last
\* declaration of that identifier in file order and list order.
C2_LastWriteWins ==
    /\ TableIsLastWrite(manifest.permissions, DeclaredPermissions(permission_files))
    /\ TableIsLastWrite(manifest.permission_sets, DeclaredSets(permission_files))

\* two files declare permission "a" and set "s" differently; the second file's
\* declarations are the ones stored
C2_Witness ==
    /\ pc = "built"
    /\ Len(permission_files) = 2
    /\ permission_files[1].permission = <<Permission_a2>>
    /\ permission_files[2].permission = <<Permission_a1>>
    /\ manifest.permissions["a"] = Permission_a1
    /\ permission_files[1].set = <<PermissionSet_s1>>
    /\ permission_files[2].set = <<>>
    /\ manifest.permission_sets["s"] = PermissionSet_s1

\* the indices of the files that declare a default
WithDefault(files) == {i \in 1..Len(files) : files[i].default # None}

\* C3: default replacement.  default_permission is absent iff no file declares
\* a default; otherwise it is built from the last file that declares one:
\* identifier "default", that file's permissions, and that file's description
\* or "Default plugin permissions." when it has none.
C3_DefaultReplaced ==
    LET with == WithDefault(permission_files)
    IN  IF with = {} THEN manifest.default_permission = None
        ELSE LET last == CHOOSE i \in with : \A j \in with : j <= i
                 d == permission_files[last].default[1]
             IN  /\ manifest.default_permission # None
                 /\ manifest.default_permission[1].identifier = "default"
                 /\ manifest.default_permission[1].permissions = d.permissions
                 /\ manifest.default_permission[1].description =
                        (IF d.description = None THEN "Default plugin permissions."
                         ELSE d.description[1])
                 /\ DOMAIN manifest.default_permission[1] =
                        {"identifier", "description", "permissions"}

\* both files declare a default; the second, which has no description, is the
\* one stored
C3_Witness ==
    /\ pc = "built"
    /\ Len(permission_files) = 2
    /\ permission_files[1].default = Some(Default_1)
    /\ permission_files[2].default = Some(Default_2)
    /\ manifest.default_permission =
           Some([identifier |-> "default",
                 description |-> "Default plugin permissions.",
                 permissions |-> <<"b", "s">>])

\* the one file whose declarations the given files split, in the same order
Unified(files) ==
    [default |-> IF WithDefault(files) = {} THEN None
                 ELSE files[CHOOSE i \in WithDefault(files) : TRUE].default,
     set |-> DeclaredSets(files),
     permission |-> DeclaredPermissions(files)]

\* C4: split equivalence.  When the consumed files are a split of one file (at
\* most one of them carries the default, and the lists of the one file are
\* the concatenations of theirs), the manifest equals the manifest of that
\* one file.
C4_SplitEquivalence ==
    Cardinality(WithDefault(permission_files)) <= 1 =>
        manifest = Manifest_new(<<Unified(permission_files)>>,
                                manifest.global_scope_schema)

\* a file that declares permission "a" twice and a default, split in two
C4_Witness ==
    /\ pc = "built"
    /\ Len(permission_files) = 2
    /\ permission_files[1].permission = <<Permission_a1>>
    /\ permission_files[2].permission = <<Permission_a2>>
    /\ permission_files[1].default = None
    /\ permission_files[2].default = Some(Default_1)
    /\ manifest.permissions["a"] = Permission_a2

\* C9: serialization round trip.  Reading back the serialized tables succeeds
\* and gives tables with the same keys and, per key, the same identifier,
\* description, command lists and scope lists (absent, zero-length or filled).
C9_RoundTrip ==
    pc = "restored" =>
        /\ restored[1] # None
        /\ LET back == restored[1][1]
           IN  /\ DOMAIN back.permissions = DOMAIN manifest.permissions
               /\ DOMAIN back.permission_sets = DOMAIN manifest.permission_sets
               /\ \A k \in DOMAIN manifest.permissions :
                      LET b == back.permissions[k]
                          m == manifest.permissions[k]
                      IN  /\ b.identifier = m.identifier
                          /\ b.description = m.description
                          /\ b.commands.allow = m.commands.allow
                          /\ b.commands.deny = m.commands.deny
                          /\ b.scope.allow = m.scope.allow
                          /\ b.scope.deny = m.scope.deny
               /\ \A k \in DOMAIN manifest.permission_sets :
                      LET b == back.permission_sets[k]
                          m == manifest.permission_sets[k]
                      IN  /\ b.identifier = m.identifier
                          /\ b.description = m.description
                          /\ b.permissions = m.permissions

\* a manifest with a permission whose scope is empty (written without "scope")
\* and one whose allow list is present with length zero, read back
C9_Witness ==
    /\ pc = "restored"
    /\ DOMAIN manifest.permissions = {"a", "b"}
    /\ manifest.permissions["a"] = Permission_a2
    /\ "scope" \notin DOMAIN serialized[1].permissions["b"]
    /\ DOMAIN serialized[1].permissions["a"].scope = {"allow"}
    /\ restored[1] # None
    /\ restored[1][1].permissions["a"].scope = [allow |-> Some(<<>>), deny |-> None]
    /\ DOMAIN manifest.permission_sets = {"s"}

(***************************************************************************)
(* Properties of the pattern harness (SpecUrl): one parsed pattern, tested *)
(* once against one URL.                                                   *)
(***************************************************************************)
\* pattern.test(&url) has returned and the matcher reported no fault
Matched == pc = "url" /\ tested > 0 /\ matcher_result # None

\* a URL of the form scheme://host/path?query#fragment: no credentials and
\* the default port of its scheme
Plain(u) == u.username = empty /\ u.password = empty /\ u.port = empty

\* h is D with at least one more label in front
IsProperSubdomain(h, D) ==
    /\ Len(h) > Len(D) + 1
    /\ h[Len(h) - Len(D)] = "."
    /\ \A i \in 1..Len(D) : h[Len(h) - Len(D) + i] = D[i]

C10_FailsClosed ==
    (pc = "url" /\ tested > 0) =>
        /\ test_result # None
        /\ test_result[1] \in BOOLEAN
        /\ matcher_result = None => test_result[1] = FALSE

\* the matcher faulted on a URL the pattern would match, and test said false
C10_Witness ==
    /\ pc = "url"
    /\ tested > 0
    /\ matcher_result = None
    /\ test_result = Some(FALSE)
    /\ as_str(patterns[tested]) = text_any_host
    /\ url[1].protocol = http
    /\ Plain(url[1])

(***************************************************************************)
(* Properties of the comparison harness (SpecEq): several parsed patterns. *)
(***************************************************************************)
ComponentNames ==
    {"protocol", "username", "password", "hostname", "port", "pathname",
     "search", "hash"}

SameComponents(p, q) == \A c \in ComponentNames : p[1][c] = q[1][c]

\* equal iff the eight components are identical; reflexive, symmetric and
\* transitive; and every recorded comparison agrees
EqIsComponentwise ==
    /\ \A i, j \in 1..Len(patterns) :
           RemoteUrlPattern_eq(patterns[i], patterns[j])
               <=> SameComponents(patterns[i], patterns[j])
    /\ \A i \in 1..Len(patterns) : RemoteUrlPattern_eq(patterns[i], patterns[i])
    /\ \A i, j \in 1..Len(patterns) :
           RemoteUrlPattern_eq(patterns[i], patterns[j])
               => RemoteUrlPattern_eq(patterns[j], patterns[i])
    /\ \A i, j, k \in 1..Len(patterns) :
           (/\ RemoteUrlPattern_eq(patterns[i], patterns[j])
            /\ RemoteUrlPattern_eq(patterns[j], patterns[k]))
               => RemoteUrlPattern_eq(patterns[i], patterns[k])
    /\ eq_result # None =>
           (eq_result[1].equal <=>
                SameComponents(patterns[eq_result[1].left],
                               patterns[eq_result[1].right]))

\* the text of q is the text of p with `suffix` appended
Appended(p, q, suffix) == as_str(q) = as_str(p) \o suffix

\* C8 as stated: equality is componentwise and an equivalence, and a
\* host-only text equals the same text with "/" or with "/*" appended.
C8_AsStated ==
    /\ EqIsComponentwise
    /\ \A i, j \in 1..Len(patterns) :
           (/\ as_str(patterns[i]) = text_host
            /\ \/ Appended(patterns[i], patterns[j], <<"/">>)
               \/ Appended(patterns[i], patterns[j], <<"/", "*">>))
               => RemoteUrlPattern_eq(patterns[i], patterns[j])

\* C8, amended: equality is componentwise and an equivalence, and takes no
\* account of the source text: a host-only text equals the same text with "/"
\* appended.  With "/*" appended the pathname compiles to "/*", not "*", and
\* the two patterns are not equal.
C8_EqComponentwise ==
    /\ EqIsComponentwise
    /\ \A i, j \in 1..Len(patterns) :
           as_str(patterns[i]) = text_host =>
               /\ Appended(patterns[i], patterns[j], <<"/">>)
                      => RemoteUrlPattern_eq(patterns[i], patterns[j])
               /\ Appended(patterns[i], patterns[j], <<"/", "*">>)
                      => ~RemoteUrlPattern_eq(patterns[i], patterns[j])

\* "http://lo" and "http://lo/" were compared and found equal, with
\* "http://lo/*" parsed beside them
C8_Witness ==
    /\ pc = "eq"
    /\ Len(patterns) = 3
    /\ as_str(patterns[1]) = text_host
    /\ as_str(patterns[2]) = text_host_slash
    /\ as_str(patterns[3]) = text_host_star
    /\ eq_result = Some([left |-> 1, right |-> 2, equal |-> TRUE])

(***************************************************************************)
(* Properties of the classification harness (SpecCtx).                     *)
(***************************************************************************)
Classified == pc = "ctx" /\ context # Unclassified

\* C11: execution context classification.  The default context is Local and
\* the app's own content is Local.  Any other content is Remote{url: p} with p
\* the first authored pattern, in declaration order, that matches its URL;
\* when no authored pattern matches the result is "no match", never Local and
\* never a Remote context.
C11_Classification ==
    /\ ExecutionContext_default.kind = "Local"
    /\ Classified =>
           LET matches(i) == RemoteUrlPattern_test(patterns[i], url[1], FALSE)
           IN  /\ is_local => context = Local
               /\ (~is_local /\ \E i \in 1..Len(patterns) : matches(i)) =>
                      /\ context.kind = "Remote"
                      /\ \E i \in 1..Len(patterns) :
                             /\ matches(i)
                             /\ \A j \in 1..(i - 1) : ~matches(j)
                             /\ context.url = Some(patterns[i])
               /\ (~is_local /\ \A i \in 1..Len(patterns) : ~matches(i)) =>
                      /\ context.kind = "NoMatch"
                      /\ context.url = None

\* "http://*.a.b" and "http://*" are authored in this order; http://x.a.b/p
\* matches both and is classified under the first
C11_Witness ==
    /\ Classified
    /\ ~is_local
    /\ Len(patterns) = 2
    /\ as_str(patterns[1]) = text_subdomain(domain_ab)
    /\ as_str(patterns[2]) = text_any_host
    /\ url[1].hostname = <<"x", ".", "a", ".", "b">>
    /\ url[1].protocol = http
    /\ url[1].port = empty
    /\ context = Remote(patterns[1])

(***************************************************************************)
(* Further properties of Manifest::new (Spec).                             *)
(***************************************************************************)
\* some set of m references an identifier that is neither a permission nor a
\* set of m
HasDangling(m) ==
    \E k \in DOMAIN m.permission_sets :
        \E i \in 1..Len(m.permission_sets[k].permissions) :
            m.permission_sets[k].permissions[i]
                \notin (DOMAIN m.permissions) \cup (DOMAIN m.permission_sets)

C13_DefaultReserved == "default" \notin DOMAIN manifest.permission_sets

(***************************************************************************)
(* Normalization on parse (SpecUrl).                                       *)
(***************************************************************************)
\* the components of the text as the constructor-string parser reads them
Authored(p) == parse_constructor_string(as_str(p))[1]

\* a component the text leaves out or gives as the empty string
AbsentOrEmpty(c) == is_none(c) \/ c = Some(empty)

\* C14: the compiled search is "*" in place of the authored one exactly when
\* the text has no search or an empty one, likewise the hash, and the compiled
\* pathname is "*" in place of the authored one exactly when the text has no
\* pathname, an empty one or "/"; each rule looks at its own component only,
\* and every other authored value, and protocol, username, password, hostname
\* and port, are compiled as authored.
C14_Normalization ==
    \A i \in 1..Len(patterns) :
        LET compiled == patterns[i][1]
            authored == Authored(patterns[i])
        IN  /\ compiled.search =
                   IF AbsentOrEmpty(authored.search) THEN star
                   ELSE authored.search[1]
            /\ compiled.hash =
                   IF AbsentOrEmpty(authored.hash) THEN star
                   ELSE authored.hash[1]
            /\ compiled.pathname =
                   IF AbsentOrEmpty(authored.pathname)
                      \/ authored.pathname = Some(slash)
                   THEN star
                   ELSE authored.pathname[1]
            /\ \A c \in {"protocol", "username", "password", "hostname", "port"} :
                   compiled[c] = unwrap_or(authored[c], star)

\* "http://lo/?q" is parsed: the pathname "/" is replaced, the search "q" is
\* kept, the absent hash is replaced
C14_Witness ==
    /\ pc = "url"
    /\ Len(patterns) = 1
    /\ as_str(patterns[1]) = text_slash_search
    /\ Authored(patterns[1]).pathname = Some(slash)
    /\ patterns[1][1].pathname = star
    /\ patterns[1][1].search = <<"q">>
    /\ patterns[1][1].hash = star

(***************************************************************************)
(* Frame and structure of the manifest (Spec).                             *)
(***************************************************************************)
\* C15: the manifest's global_scope_schema is the argument, absent or present,
\* after every number of files and whatever the files declare.
C15_SchemaVerbatim == manifest.global_scope_schema = schema_arg

\* a schema is given and two files are aggregated, the first without any
\* declaration
C15_Witness ==
    /\ pc = "built"
    /\ schema_arg = Some("schema")
    /\ Len(permission_files) = 2
    /\ DeclCount(permission_files[1]) = 0
    /\ DeclCount(permission_files[2]) > 0
    /\ manifest.global_scope_schema = Some("schema")

\* the identifiers a list of declarations declares
Identifiers(decls) == {decls[i].identifier : i \in 1..Len(decls)}

\* C16: after any number of processed files, and in the returned manifest, each
\* entry of permissions and of permission_sets is stored under its own
\* identifier, and the keys of each table are exactly the identifiers the
\* processed files declare for it.
C16_KeyAgreement ==
    /\ \A k \in DOMAIN manifest.permissions :
           manifest.permissions[k].identifier = k
    /\ \A k \in DOMAIN manifest.permission_sets :
           manifest.permission_sets[k].identifier = k
    /\ DOMAIN manifest.permissions =
           Identifiers(DeclaredPermissions(permission_files))
    /\ DOMAIN manifest.permission_sets =
           Identifiers(DeclaredSets(permission_files))

\* one file declaring permissions "a" and "b" and set "t" has been processed
\* and the loop is still running
C16_Witness ==
    /\ pc = "loop"
    /\ Len(permission_files) = 1
    /\ DOMAIN manifest.permissions = {"a", "b"}
    /\ DOMAIN manifest.permission_sets = {"t"}
    /\ manifest.permission_sets["t"].identifier = "t"
    /\ manifest.permissions["b"].identifier = "b"

\* the files in the order pi, a permutation of their indices
Permuted(files, pi) == [i \in 1..Len(files) |-> files[pi[i]]]

\* the bijections on 1..n
Orders(n) ==
    {pi \in [1..n -> 1..n] : \A i, j \in 1..n : pi[i] = pi[j] => i = j}

\* no two declarations of the list share an identifier
Distinct(decls) ==
    \A i, j \in 1..Len(decls) : decls[i].identifier = decls[j].identifier => i = j

\* no permission identifier and no set identifier is declared twice, and at
\* most one file declares a default
NoConflicts(files) ==
    /\ Distinct(DeclaredPermissions(files))
    /\ Distinct(DeclaredSets(files))
    /\ Cardinality(WithDefault(files)) <= 1

\* C17: when the consumed files are free of conflicts, Manifest::new of every
\* permutation of them is the manifest built from them in the given order.
C17_OrderInsensitive ==
    NoConflicts(permission_files) =>
        \A pi \in Orders(Len(permission_files)) :
            Manifest_new(Permuted(permission_files, pi), schema_arg) = manifest

\* two different files without conflicts, the first with a default and a
\* permission, the second with a set; the other order gives the same manifest
C17_Witness ==
    /\ pc = "built"
    /\ Len(permission_files) = 2
    /\ NoConflicts(permission_files)
    /\ permission_files[1].default # None
    /\ permission_files[1].permission # <<>>
    /\ permission_files[2].default = None
    /\ permission_files[2].set # <<>>
    /\ Manifest_new(<<permission_files[2], permission_files[1]>>, schema_arg)
           = manifest

====
